---- MODULE Spec2Model ----
(***************************************************************************)
(* OAuth 2.0 device authorization grant against GitHub, as implemented     *)
(* twice in this repository:                                               *)
(*   device_auth.py       main -> authenticate_and_print_user ->           *)
(*                        request_device_code / poll_access_token          *)
(*   device_code_flow.py  device_code_flow (the complete definition,       *)
(*                        lines 47-100)                                    *)
(* One run of one of the two programs is one behaviour.  The provider and  *)
(* the user are the environment: every HTTP call returns a status and a    *)
(* JSON object whose fields may be present or absent.                      *)
(***************************************************************************)
EXTENDS Integers, Sequences, FiniteSets, TLC

\* Largest number of sleep/request cycles of the polling loop that is explored.
MaxPolls == 5

\* ---------------------------------------------------------------- inputs --
HttpStatuses == {200, 201, 401, 500}
Intervals == {5, 8}
ExpiresIns == {10}
DeviceCodes == {"dc1", "dc2"}
Tokens == {"t1", "t2"}
ProviderErrors ==
    {"authorization_pending", "slow_down", "expired_token", "access_denied",
     "unsupported_grant_type"}
Descriptions == {"user denied"}
Logins == {"octocat"}

\* Python's None, as it is printed.
None == "None"

\* A JSON object is a function from its keys: "k in d" is k \in DOMAIN d.
EmptyDict == [k \in {} |-> 0]

Opt(field, S) == {EmptyDict} \cup {field :> v : v \in S}

\* dict.get(k): the value, or None when the key is absent.
Get(d, k) == IF k \in DOMAIN d THEN d[k] ELSE None

Is2xx(s) == s \in 200..299

\* Bodies of the device-code endpoint: interval may be absent.
DeviceBodies ==
    { [device_code |-> dc, user_code |-> "WDJB-MJHT",
       verification_uri |-> "https://github.com/login/device",
       expires_in |-> e] @@ i :
        dc \in DeviceCodes, e \in ExpiresIns, i \in Opt("interval", Intervals) }

DeviceResponses == [status : HttpStatuses, body : DeviceBodies]

\* Bodies of the token endpoint: every combination of the three fields.
TokenBodies ==
    { e @@ d @@ t : e \in Opt("error", ProviderErrors),
                    d \in Opt("error_description", Descriptions),
                    t \in Opt("access_token", Tokens) }

TokenResponses == [status : HttpStatuses, body : TokenBodies]

UserResponses == [status : HttpStatuses, body : Opt("login", Logins)]

\* The access tokens that occur in a JSON object.
TokensIn(d) == IF "access_token" \in DOMAIN d THEN {d["access_token"]} ELSE {}

\* One line written to a stream: what it is, and the values it carries.
Msg(kind, status, error, desc, shown) ==
    [kind |-> kind, status |-> status, error |-> error, desc |-> desc,
     shown |-> shown]

\* One network call with the response it got.
Call(endpoint, payload, resp) ==
    [endpoint |-> endpoint, payload |-> payload, status |-> resp.status,
     error |-> Get(resp.body, "error")]

\* ----------------------------------------------------------------- state --
VARIABLES
    impl,       \* which of the two programs runs
    pc,         \* position: start, input, sleep, request, verify, done
    info,       \* parsed device-code response (info / data)
    interval,   \* the poller's interval; 0 before the loop is entered
    data,       \* parsed body of the latest token response (data / token_data)
    seen,       \* access tokens in the bodies parsed before data
    token,      \* the access token the loop returned, None before
    exitCode,   \* {} while running, {0} or {1} once the process ended
    failure,    \* which raise / sys.exit site ended the run, "none" otherwise
    stdout,     \* lines printed to the console
    stderr,     \* lines printed to the error stream
    net,        \* network calls made so far, in order
    sleeps,     \* durations of the time.sleep calls made so far, in order
    stdin       \* number of lines read from the console by input()

vars == <<impl, pc, info, interval, data, seen, token, exitCode, failure,
          stdout, stderr, net, sleeps, stdin>>

Init ==
    /\ impl \in {"device_auth", "device_code_flow"}
    /\ pc = "start"
    /\ info = EmptyDict
    /\ interval = 0
    /\ data = EmptyDict
    /\ seen = {}
    /\ token = None
    /\ exitCode = {}
    /\ failure = "none"
    /\ stdout = <<>>
    /\ stderr = <<>>
    /\ net = <<>>
    /\ sleeps = <<>>
    /\ stdin = 0

\* ===================================================== device_auth.py =====

\* Mutant: an exception raised inside the polling loop is reported and the
\* loop goes on.
main_except_resume(msg, why) ==
    /\ stderr' = Append(stderr, msg)
    /\ exitCode' = IF pc = "request" THEN {} ELSE {1}
    /\ failure' = why
    /\ pc' = IF pc = "request" THEN "sleep" ELSE "done"

\* main's handler: the exception is printed to stderr and the process exits 1.
main_except(msg, why) ==
    /\ stderr' = Append(stderr, msg)
    /\ exitCode' = {1}
    /\ failure' = why
    /\ pc' = "done"

\* Mutant: only server errors are treated as failures.
auth_device_failed_5xx(s) == s >= 500

\* request_device_code: if resp.status_code != 200: raise
auth_device_failed(s) == s # 200

\* The keys authenticate_and_print_user subscripts right after the request.
auth_required_keys == {"user_code", "expires_in", "interval"}

\* info = request_device_code(...), the reads of info, the prompt.
request_device_code ==
    /\ impl = "device_auth"
    /\ pc = "start"
    /\ \E resp \in DeviceResponses :
        /\ net' = Append(net, Call("device_code", "-", resp))
        /\ IF auth_device_failed(resp.status)
           THEN /\ main_except(Msg("error", resp.status, None, None, {}),
                               "device_http")
                /\ UNCHANGED <<info, stdout>>
           ELSE IF ~ (auth_required_keys \subseteq DOMAIN resp.body)
           THEN /\ main_except(Msg("error", 0, "KeyError", None, {}),
                               "key_error")
                /\ UNCHANGED <<info, stdout>>
           ELSE /\ info' = resp.body
                /\ stdout' = Append(stdout, Msg("prompt", 0, None, None, {}))
                /\ pc' = "input"
                /\ UNCHANGED <<stderr, exitCode, failure>>
    /\ UNCHANGED <<stdin, impl, interval, data, seen, token, sleeps>>

\* poll_access_token: interval = 5
auth_interval == 5

\* Mutant: the poller starts at the interval of the device-code response.
auth_initial_interval_from_info(i) == Get(i, "interval")

\* The interval poll_access_token starts with; it is not given info.
auth_initial_interval(i) == auth_interval

\* input() returns; poll_access_token is entered.
auth_input ==
    /\ impl = "device_auth"
    /\ pc = "input"
    /\ stdout' = Append(stdout, Msg("waiting", 0, None, None, {}))
    /\ interval' = auth_initial_interval(info)
    /\ pc' = "sleep"
    /\ stdin' = stdin + 1
    /\ UNCHANGED <<impl, info, data, seen, token, exitCode, failure, stderr,
                   net, sleeps>>

\* Mutant: the loop does not sleep before it sends the request.
auth_sleep_skipped ==
    /\ impl = "device_auth"
    /\ pc = "sleep"
    /\ Len(net) <= MaxPolls
    /\ pc' = "request"
    /\ UNCHANGED <<stdin, impl, info, interval, data, seen, token, exitCode,
                   failure, stdout, stderr, net, sleeps>>

\* Mutant: the loop gives up once the sleeps would pass expires_in.
auth_sleep_deadline ==
    /\ impl = "device_auth"
    /\ pc = "sleep"
    /\ Len(sleeps) < MaxPolls
    /\ IF Len(sleeps) * interval >= info["expires_in"]
       THEN /\ main_except(Msg("error", 0, "expired", None, {}), "expired")
            /\ UNCHANGED sleeps
       ELSE /\ sleeps' = Append(sleeps, interval)
            /\ pc' = "request"
            /\ UNCHANGED <<exitCode, failure, stderr>>
    /\ UNCHANGED <<stdin, impl, info, interval, data, seen, token, stdout, net>>

\* time.sleep(interval) at the head of the loop.
auth_sleep ==
    /\ impl = "device_auth"
    /\ pc = "sleep"
    /\ Len(sleeps) < MaxPolls
    /\ sleeps' = Append(sleeps, interval)
    /\ pc' = "request"
    /\ UNCHANGED <<stdin, impl, info, interval, data, seen, token, exitCode, failure,
                   stdout, stderr, net>>

\* Mutant: HTTP 401 is let through to the JSON handling.
auth_poll_failed_5xx(s) == s >= 500

\* poll_access_token: if response.status_code != 200: raise
auth_poll_failed(s) == s # 200

\* Mutant: expired_token is waited out like authorization_pending.
auth_continues_expired(err) ==
    err \in {"authorization_pending", "slow_down", "expired_token"}

\* Mutant: every provider error is waited out.
auth_continues_any(err) == TRUE

\* The two branches of poll_access_token that end in "continue".
auth_continues(err) == err \in {"authorization_pending", "slow_down"}

\* interval += 5
auth_slow_down_step == 5

\* Mutant: authorization_pending backs off as well.
auth_interval_after_pending(err, iv) ==
    IF err \in {"slow_down", "authorization_pending"}
    THEN iv + auth_slow_down_step ELSE iv

\* Mutant: slow_down leaves the interval alone.
auth_interval_after_none(err, iv) == iv

\* Mutant: slow_down doubles the increment.
auth_interval_after_twice(err, iv) ==
    IF err = "slow_down" THEN iv + 2 * auth_slow_down_step ELSE iv

\* The interval after a "continue" branch: only slow_down adds to it.
auth_interval_after(err, iv) ==
    IF err = "slow_down" THEN iv + auth_slow_down_step ELSE iv

\* Mutant: a token seen in an earlier iteration's body is returned.
auth_returned_token_stale(d) ==
    IF seen # {} THEN CHOOSE t \in seen : TRUE ELSE d["access_token"]

\* return data["access_token"]
auth_returned_token(d) == d["access_token"]

\* Mutant: the description is dropped from the exception text.
auth_provider_error_nodesc(d) ==
    Msg("error", 0, d["error"], None, {})

\* RuntimeError(f"Error polling for token: {err}: {data.get('error_description')}")
auth_provider_error(d) ==
    Msg("error", 0, d["error"], Get(d, "error_description"), {})

\* Mutant: the user code is sent in place of the device code.
auth_token_payload_user_code(i) == i["user_code"]

\* "device_code": device_code in the form of the token request.
auth_token_payload(i) == i["device_code"]

\* Mutant: the token is echoed in the success line.
auth_obtained_line_leak(t) == Msg("obtained", 0, None, None, {t})

\* print("Successfully obtained an access token.")
auth_obtained_line(t) == Msg("obtained", 0, None, None, {})

\* One token request and the handling of its response, up to the return.
poll_access_token ==
    /\ impl = "device_auth"
    /\ pc = "request"
    /\ \E resp \in TokenResponses :
        /\ net' = Append(net, Call("token", auth_token_payload(info), resp))
        /\ IF auth_poll_failed(resp.status)
           THEN /\ main_except(Msg("error", resp.status, None, None, {}),
                               "poll_http")
                /\ UNCHANGED <<data, seen, interval, token, stdout>>
           ELSE /\ data' = resp.body
                /\ seen' = seen \cup TokensIn(data)
                /\ IF "error" \in DOMAIN resp.body
                   THEN IF auth_continues(resp.body["error"])
                        THEN /\ interval' =
                                  auth_interval_after(resp.body["error"], interval)
                             /\ pc' = "sleep"
                             /\ UNCHANGED <<token, stdout, stderr, exitCode,
                                            failure>>
                        ELSE IF resp.body["error"] = "expired_token"
                        THEN /\ main_except(
                                  Msg("error", 0, "expired", None, {}),
                                  "expired")
                             /\ UNCHANGED <<interval, token, stdout>>
                        ELSE /\ main_except(auth_provider_error(resp.body),
                                            "provider")
                             /\ UNCHANGED <<interval, token, stdout>>
                   ELSE IF "access_token" \in DOMAIN resp.body
                        THEN /\ token' = auth_returned_token(resp.body)
                             /\ stdout' = Append(stdout,
                                    auth_obtained_line(resp.body["access_token"]))
                             /\ pc' = "verify"
                             /\ UNCHANGED <<interval, stderr, exitCode, failure>>
                        ELSE /\ main_except(
                                  Msg("error", 0, "KeyError", None, {}),
                                  "key_error")
                             /\ UNCHANGED <<interval, token, stdout>>
    /\ UNCHANGED <<stdin, impl, info, sleeps>>

\* Mutant: every status below 400 counts as verified.
auth_verify_line_lenient(r) ==
    IF r.status < 400
    THEN Msg("authenticated", 0, Get(r.body, "login"), None, {})
    ELSE Msg("warning", r.status, None, None, {})

\* if r.status_code == 200: print the login, else: print the warning.
auth_verify_line(r) ==
    IF r.status = 200
    THEN Msg("authenticated", 0, Get(r.body, "login"), None, {})
    ELSE Msg("warning", r.status, None, None, {})

\* requests.get(".../user"); the username or a warning; main returns.
auth_verify ==
    /\ impl = "device_auth"
    /\ pc = "verify"
    /\ \E r \in UserResponses :
        /\ net' = Append(net, Call("user", token, r))
        /\ stdout' = Append(stdout, auth_verify_line(r))
    /\ exitCode' = {0}
    /\ pc' = "done"
    /\ UNCHANGED <<stdin, impl, info, interval, data, seen, token, failure, stderr,
                   sleeps>>

\* ================================================= device_code_flow.py =====

\* print(..., file=sys.stderr); sys.exit(1)
flow_exit(msg, why) ==
    /\ stderr' = Append(stderr, msg)
    /\ exitCode' = {1}
    /\ failure' = why
    /\ pc' = "done"

\* Mutant: only server errors are treated as failures.
flow_device_failed_5xx(s) == s >= 500

\* if response.status_code != 200: print, sys.exit(1)
flow_device_failed(s) == s # 200

\* The keys device_code_flow subscripts for the prompt.
flow_required_keys == {"verification_uri", "user_code"}

\* The device-code request, the prompt and the browser launch.
flow_request_device_code ==
    /\ impl = "device_code_flow"
    /\ pc = "start"
    /\ \E resp \in DeviceResponses :
        /\ net' = Append(net, Call("device_code", "-", resp))
        /\ IF flow_device_failed(resp.status)
           THEN /\ flow_exit(Msg("error", resp.status, None, None, {}),
                             "device_http")
                /\ UNCHANGED <<info, stdout>>
           ELSE IF ~ (flow_required_keys \subseteq DOMAIN resp.body)
           THEN /\ flow_exit(Msg("traceback", 0, "KeyError", None, {}),
                             "key_error")
                /\ UNCHANGED <<info, stdout>>
           ELSE /\ info' = resp.body
                /\ stdout' = Append(stdout, Msg("prompt", 0, None, None, {}))
                /\ pc' = "input"
                /\ UNCHANGED <<stderr, exitCode, failure>>
    /\ UNCHANGED <<stdin, impl, interval, data, seen, token, sleeps>>

\* data.get("interval", 5): the default
flow_default_interval == 5

\* Mutant: the interval of the device-code response is ignored.
flow_initial_interval_fixed(i) == flow_default_interval

\* interval = int(data.get("interval", 5))
flow_initial_interval(i) ==
    IF "interval" \in DOMAIN i THEN i["interval"] ELSE flow_default_interval

\* input(...) returns; the interval is set and the loop is entered.
flow_input ==
    /\ impl = "device_code_flow"
    /\ pc = "input"
    /\ interval' = flow_initial_interval(info)
    /\ pc' = "sleep"
    /\ stdin' = stdin + 1
    /\ UNCHANGED <<impl, info, data, seen, token, exitCode, failure, stdout,
                   stderr, net, sleeps>>

\* time.sleep(interval) at the head of the loop.
flow_sleep ==
    /\ impl = "device_code_flow"
    /\ pc = "sleep"
    /\ Len(sleeps) < MaxPolls
    /\ sleeps' = Append(sleeps, interval)
    /\ pc' = "request"
    /\ UNCHANGED <<stdin, impl, info, interval, data, seen, token, exitCode, failure,
                   stdout, stderr, net>>

\* Mutant: HTTP 401 is let through to the JSON handling.
flow_poll_failed_5xx(s) == s >= 500

\* Mutant: every 2xx status is let through to the JSON handling.
flow_poll_failed_non2xx(s) == ~ Is2xx(s)

\* if token_resp.status_code != 200: print, sys.exit(1)
flow_poll_failed(s) == s # 200

\* Mutant: expired_token is waited out like authorization_pending.
flow_continues_expired(err) ==
    err \in {"authorization_pending", "slow_down", "expired_token"}

\* Mutant: every provider error is waited out.
flow_continues_any(err) == TRUE

\* The two branches of the loop that end in "continue".
flow_continues(err) == err \in {"authorization_pending", "slow_down"}

\* interval += 5
flow_slow_down_step == 5

\* Mutant: authorization_pending backs off as well.
flow_interval_after_pending(err, iv) ==
    IF err \in {"slow_down", "authorization_pending"}
    THEN iv + flow_slow_down_step ELSE iv

\* Mutant: slow_down leaves the interval alone.
flow_interval_after_none(err, iv) == iv

\* Mutant: slow_down doubles the increment.
flow_interval_after_twice(err, iv) ==
    IF err = "slow_down" THEN iv + 2 * flow_slow_down_step ELSE iv

\* Mutant: the interval is capped at 20 seconds.
flow_interval_after_capped(err, iv) ==
    IF err = "slow_down"
    THEN (IF iv + flow_slow_down_step > 20 THEN 20 ELSE iv + flow_slow_down_step)
    ELSE iv

\* The interval after a "continue" branch: only slow_down adds to it.
flow_interval_after(err, iv) ==
    IF err = "slow_down" THEN iv + flow_slow_down_step ELSE iv

\* Mutant: a token seen in an earlier iteration's body is used.
flow_access_token_stale(d) ==
    IF seen # {} THEN CHOOSE t \in seen : TRUE ELSE d["access_token"]

\* access_token = token_data["access_token"]
flow_access_token(d) == d["access_token"]

\* Mutant: only the error code is printed.
flow_provider_error_nodesc(d) ==
    Msg("error", 0, d["error"], None, TokensIn(d))

\* print("Error:", token_data, file=sys.stderr): the whole object is printed.
flow_provider_error(d) ==
    Msg("error", 0, d["error"], Get(d, "error_description"), TokensIn(d))

\* Mutant: the user code is sent in place of the device code.
flow_token_payload_user_code(i) == i["user_code"]

\* "device_code": data["device_code"] in the form of the token request.
flow_token_payload(i) == i["device_code"]

\* Mutant: the token is echoed in the success line.
flow_obtained_line_leak(t) == Msg("obtained", 0, None, None, {t})

\* print("Obtained access token.")
flow_obtained_line(t) == Msg("obtained", 0, None, None, {})

\* One token request and the handling of its response.
flow_poll ==
    /\ impl = "device_code_flow"
    /\ pc = "request"
    /\ \E resp \in TokenResponses :
        /\ net' = Append(net, Call("token", flow_token_payload(info), resp))
        /\ IF flow_poll_failed(resp.status)
           THEN /\ flow_exit(Msg("error", resp.status, None, None, {}),
                             "poll_http")
                /\ UNCHANGED <<data, seen, interval, token, stdout>>
           ELSE /\ data' = resp.body
                /\ seen' = seen \cup TokensIn(data)
                /\ IF "error" \in DOMAIN resp.body
                   THEN IF flow_continues(resp.body["error"])
                        THEN /\ interval' =
                                  flow_interval_after(resp.body["error"], interval)
                             /\ pc' = "sleep"
                             /\ UNCHANGED <<token, stdout, stderr, exitCode,
                                            failure>>
                        ELSE /\ flow_exit(flow_provider_error(resp.body),
                                          "provider")
                             /\ UNCHANGED <<interval, token, stdout>>
                   ELSE IF "access_token" \in DOMAIN resp.body
                        THEN /\ token' = flow_access_token(resp.body)
                             /\ stdout' = Append(stdout,
                                    flow_obtained_line(resp.body["access_token"]))
                             /\ pc' = "verify"
                             /\ UNCHANGED <<interval, stderr, exitCode, failure>>
                        ELSE /\ flow_exit(
                                  Msg("traceback", 0, "KeyError", None, {}),
                                  "key_error")
                             /\ UNCHANGED <<interval, token, stdout>>
    /\ UNCHANGED <<stdin, impl, info, sleeps>>

\* Mutant: every status below 400 counts as verified.
flow_verify_ok_lenient(s) == s < 400

\* if user_resp.status_code == 200
flow_verify_ok(s) == s = 200

\* Mutant: the return that ends the while loop is missing.
flow_verify_no_return ==
    /\ impl = "device_code_flow"
    /\ pc = "verify"
    /\ \E r \in UserResponses :
        /\ net' = Append(net, Call("user", token, r))
        /\ IF flow_verify_ok(r.status)
           THEN /\ stdout' = Append(stdout,
                      Msg("authenticated", 0, Get(r.body, "login"), None, {}))
                /\ UNCHANGED stderr
           ELSE /\ stderr' = Append(stderr,
                      Msg("warning", r.status, None, None, {}))
                /\ UNCHANGED stdout
    /\ pc' = "sleep"
    /\ UNCHANGED <<stdin, impl, info, interval, data, seen, token, failure,
                   sleeps, exitCode>>

\* The identity call; the username on stdout or the failure on stderr; return.
flow_verify ==
    /\ impl = "device_code_flow"
    /\ pc = "verify"
    /\ \E r \in UserResponses :
        /\ net' = Append(net, Call("user", token, r))
        /\ IF flow_verify_ok(r.status)
           THEN /\ stdout' = Append(stdout,
                      Msg("authenticated", 0, Get(r.body, "login"), None, {}))
                /\ UNCHANGED stderr
           ELSE /\ stderr' = Append(stderr,
                      Msg("warning", r.status, None, None, {}))
                /\ UNCHANGED stdout
    /\ exitCode' = {0}
    /\ pc' = "done"
    /\ UNCHANGED <<stdin, impl, info, interval, data, seen, token, failure, sleeps>>

\* ---------------------------------------------------------- specification --
Next ==
    \/ request_device_code
    \/ auth_input
    \/ auth_sleep
    \/ poll_access_token
    \/ auth_verify
    \/ flow_request_device_code
    \/ flow_input
    \/ flow_sleep
    \/ flow_poll
    \/ flow_verify

Spec == Init /\ [][Next]_vars

\* The program is one thread that always takes its next step; the user
\* answers the prompt and the provider answers every request.
FairSpec == Spec /\ WF_vars(Next)

\* ------------------------------------------------------------ vocabulary --
Last(q) == q[Len(q)]

\* The i-th network call is a token request answered with HTTP 200.
TokenOk(i) == net[i].endpoint = "token" /\ net[i].status = 200

\* The step just taken sent a token request that came back with HTTP 200.
PolledOk ==
    /\ pc = "request"
    /\ Len(net') = Len(net) + 1
    /\ Last(net').endpoint = "token"
    /\ Last(net').status = 200

TokenCalls == SelectSeq(net, LAMBDA c : c.endpoint = "token")

\* Every sleep is followed by a token request and nothing else.
SleepThenRequest ==
    /\ pc = "sleep" => /\ pc' = "request"
                       /\ sleeps' = Append(sleeps, interval)
                       /\ net' = net
    /\ pc = "request" => /\ Len(net') = Len(net) + 1
                         /\ Last(net').endpoint = "token"
                         /\ sleeps' = sleeps

\* ---------------------------------------------------------------- claims --

\* C1: a token response with HTTP 200 and error = authorization_pending does
\* not end the loop and leaves the interval as it was; what follows is one
\* more sleep and then one more token request, in both programs.
C1_PendingContinues ==
    [][ /\ (PolledOk /\ Last(net').error = "authorization_pending")
           => /\ interval' = interval
              /\ pc' = "sleep"
              /\ exitCode' = {}
              /\ token' = None
        /\ SleepThenRequest ]_vars

\* C1 witness: after an authorization_pending answer the loop has slept again
\* for the same duration and is about to send the next token request.
C1_Witness ==
    /\ pc = "request"
    /\ Len(net) >= 2
    /\ TokenOk(Len(net))
    /\ Last(net).error = "authorization_pending"
    /\ Len(sleeps) = Len(TokenCalls) + 1
    /\ Last(sleeps) = sleeps[Len(sleeps) - 1]

\* C2: a token response with HTTP 200 and error = slow_down adds exactly 5 to
\* the interval, does not end the loop, and the sleep that follows lasts the
\* increased interval.
C2_SlowDownAddsFive ==
    [][ /\ (PolledOk /\ Last(net').error = "slow_down")
           => /\ interval' = interval + 5
              /\ interval' > interval
              /\ pc' = "sleep"
              /\ exitCode' = {}
        /\ (pc = "sleep" /\ Len(net) >= 2 /\ Last(net).error = "slow_down")
           => /\ pc' = "request"
              /\ sleeps' = Append(sleeps, Last(sleeps) + 5) ]_vars

\* C2 witness: the sleep after a slow_down answer was 5 seconds longer than
\* the sleep before it.
C2_Witness ==
    /\ pc = "request"
    /\ Len(net) >= 2
    /\ TokenOk(Len(net))
    /\ Last(net).error = "slow_down"
    /\ Len(sleeps) >= 2
    /\ Last(sleeps) = sleeps[Len(sleeps) - 1] + 5

\* C3: a token response with HTTP 200 and error = expired_token is the last
\* network call of the run: the run has failed, no token was returned, no
\* token request and no identity request follows.
C3_ExpiredIsTerminal ==
    \A i \in 1..Len(net) :
        (TokenOk(i) /\ net[i].error = "expired_token")
        => /\ i = Len(net)
           /\ pc = "done"
           /\ token = None
           /\ exitCode = {1}
           /\ failure # "none"

\* C3 witness: expired_token arrived after the loop had already waited.
C3_Witness ==
    /\ Len(net) >= 3
    /\ TokenOk(Len(net))
    /\ Last(net).error = "expired_token"
    /\ pc = "done"

\* C4: a token response with HTTP 200, no error field and an access token ends
\* the loop in that iteration; the token returned, and later sent to the
\* identity endpoint, is the one of that response, not one of an earlier body.
C4_ReturnsFinalToken ==
    [][ /\ (PolledOk /\ "error" \notin DOMAIN data'
                     /\ "access_token" \in DOMAIN data')
           => /\ pc' = "verify"
              /\ token' = data'["access_token"]
        /\ token # None
           => /\ token' = token
              /\ data' = data
              /\ token = data["access_token"]
        /\ (pc = "verify" /\ pc' = "done")
           => /\ Last(net').endpoint = "user"
              /\ Last(net').payload = data["access_token"] ]_vars

\* C4 witness: a run that returned a token although an earlier body carried a
\* different one, and sent the returned token to the identity endpoint.
C4_Witness ==
    /\ pc = "done"
    /\ token # None
    /\ seen # {}
    /\ token \notin seen
    /\ Last(net).endpoint = "user"
    /\ Last(net).payload = token

Script ==
    <<"authorization_pending", "authorization_pending", "slow_down",
      "authorization_pending", None>>

\* The token responses so far are exactly the script, all with HTTP 200, and
\* the last one carries an access token.
Scripted ==
    /\ Len(TokenCalls) = Len(Script)
    /\ \A i \in 1..Len(Script) :
          TokenCalls[i].status = 200 /\ TokenCalls[i].error = Script[i]
    /\ "access_token" \in DOMAIN data

\* C5: against the responses pending, pending, slow_down, pending, success the
\* poller makes exactly 5 sleep/request cycles, the interval at the success
\* iteration is the initial interval plus 5, and the token of the fifth
\* response is returned.
C5_ScriptedRun ==
    Scripted
    => /\ pc \in {"verify", "done"}
       /\ Len(sleeps) = 5
       /\ Len(TokenCalls) = 5
       /\ sleeps[5] = sleeps[1] + 5
       /\ interval = sleeps[1] + 5
       /\ token = data["access_token"]

\* C5 witness: the scripted run has happened and returned a token.
C5_Witness == Scripted /\ token # None /\ pc = "done"

\* C6: the first sleep of the polling loop lasts the interval of the
\* device-code response, and 5 seconds only when the response has no interval.
C6_StartsAtServerInterval ==
    Len(sleeps) >= 1
    => sleeps[1] = (IF "interval" \in DOMAIN info THEN info["interval"] ELSE 5)

\* C7: a non-2xx status at the device-code request or at a token request is
\* the last network call of the run, and the run has ended with a fatal error.
C7_Non2xxIsFatal ==
    \A i \in 1..Len(net) :
        (net[i].endpoint \in {"device_code", "token"} /\ ~ Is2xx(net[i].status))
        => /\ i = Len(net)
           /\ pc = "done"
           /\ exitCode = {1}
           /\ failure \in {"device_http", "poll_http"}
           /\ token = None

\* C7 witness: a token request answered with a non-2xx status after the loop
\* had been running.
C7_Witness ==
    /\ Len(net) >= 3
    /\ Last(net).endpoint = "token"
    /\ ~ Is2xx(Last(net).status)
    /\ pc = "done"

Lines(q) == {q[i] : i \in 1..Len(q)}

\* C8: after a token was obtained, an identity response with any status other
\* than 200 ends the run with a warning that names the status and with exit
\* code 0.
C8_UnverifiedTokenSucceeds ==
    \A i \in 1..Len(net) :
        (net[i].endpoint = "user" /\ net[i].status # 200)
        => /\ token # None
           /\ pc = "done"
           /\ exitCode = {0}
           /\ failure = "none"
           /\ \E m \in Lines(stdout) \cup Lines(stderr) :
                 m.kind = "warning" /\ m.status = net[i].status

\* C8 witness: the identity endpoint answered 401 to a token that was obtained.
C8_Witness ==
    /\ pc = "done"
    /\ Last(net).endpoint = "user"
    /\ Last(net).status = 401
    /\ token # None

\* C9: a run that has ended has exit code 0 exactly when an access token was
\* obtained, and exit code 1 with an error message on stderr exactly when one
\* of the four fatal errors occurred: device-code transport failure, polling
\* transport failure, expired_token, unrecognized provider error.
C9_ExitCodes ==
    pc = "done"
    => /\ exitCode = {0} <=> token # None
       /\ exitCode = {1} <=>
            /\ failure \in {"device_http", "poll_http", "expired", "provider"}
            /\ stderr # <<>>
            /\ Last(stderr).kind = "error"

\* C10: a token response with HTTP 200 whose error is none of
\* authorization_pending, slow_down, expired_token is the last network call:
\* the run fails, the message carries the provider's error code and
\* description, and no token is returned; authorization_pending and slow_down
\* never put anything on stderr or end the run.
C10_OtherErrorsAreFatal ==
    /\ \A i \in 1..Len(net) :
          (TokenOk(i) /\ net[i].error \notin
              {"authorization_pending", "slow_down", "expired_token", None})
          => /\ i = Len(net)
             /\ pc = "done"
             /\ exitCode = {1}
             /\ token = None
             /\ Last(stderr).error = net[i].error
             /\ Last(stderr).desc = Get(data, "error_description")
    /\ (Len(net) >= 1 /\ TokenOk(Len(net))
          /\ Last(net).error \in {"authorization_pending", "slow_down"})
       => /\ exitCode = {}
          /\ failure = "none"
          /\ stderr = <<>>
          /\ pc \in {"sleep", "request"}

\* C10 witness: the provider answered access_denied with a description.
C10_Witness ==
    /\ Len(net) >= 2
    /\ TokenOk(Len(net))
    /\ Last(net).error = "access_denied"
    /\ "error_description" \in DOMAIN data
    /\ pc = "done"

\* The polling loop has produced its result: a token or a failure.
LoopFailed ==
    \/ failure \in {"poll_http", "expired", "provider"}
    \/ failure = "key_error" /\ Len(TokenCalls) >= 1

LoopEnded == token # None \/ LoopFailed

TokenResults ==
    (IF token # None THEN 1 ELSE 0) + (IF LoopFailed THEN 1 ELSE 0)

\* C11: the polling loop ends at most once, in exactly one of its terminal
\* states: once it has produced a token or a failure there is no further
\* sleep, no further token request and no change of interval, and the result
\* produced is exactly one.
C11_TerminalOnce ==
    [][ /\ LoopEnded
           => /\ sleeps' = sleeps
              /\ interval' = interval
              /\ token' = token
              /\ failure' = failure
              /\ Len(net') > Len(net) => Last(net').endpoint = "user"
        /\ LoopEnded' => (TokenResults' = 1 /\ pc' \in {"verify", "done"})
        /\ (pc' \in {"verify", "done"} /\ Len(TokenCalls') >= 1)
           => LoopEnded' ]_vars

\* C11 witness: the loop ended with a token after several cycles and the
\* program went on to the identity call without polling again.
C11_Witness ==
    /\ pc = "done"
    /\ token # None
    /\ Len(sleeps) >= 2
    /\ Len(sleeps) = Len(TokenCalls)
    /\ Last(net).endpoint = "user"

\* Number of slow_down answers received so far.
SlowDowns ==
    Cardinality({i \in 1..Len(net) : TokenOk(i) /\ net[i].error = "slow_down"})

\* C12: the interval is always its initial value (the duration of the first
\* sleep) plus 5 for every slow_down received so far; it never decreases, only
\* a slow_down answer changes it, and its growth is not capped.
C12_IntervalIsLinear ==
    /\ [](Len(sleeps) >= 1 => interval = sleeps[1] + 5 * SlowDowns)
    /\ [][ /\ interval' >= interval
           /\ interval' # interval
              => \/ pc = "input"
                 \/ PolledOk /\ Last(net').error = "slow_down" ]_vars

\* C12 witness: every answer up to the exploration bound was slow_down and the
\* interval grew by 5 each time.
C12_Witness ==
    /\ SlowDowns = MaxPolls
    /\ interval = sleeps[1] + 5 * MaxPolls

\* C13: every token request comes right after one sleep of the current
\* interval, the first request included: the sleeps made are as many as the
\* token requests sent, or one more while a request is about to be sent.
C13_SleepBeforeEveryRequest ==
    /\ [](Len(sleeps) = Len(TokenCalls) + (IF pc = "request" THEN 1 ELSE 0))
    /\ [][ /\ Len(sleeps') > Len(sleeps)
              => sleeps' = Append(sleeps, interval) /\ net' = net
           /\ (Len(net') > Len(net) /\ Last(net').endpoint = "token")
              => /\ Len(sleeps) = Len(TokenCalls) + 1
                 /\ Last(sleeps) = interval
                 /\ sleeps' = sleeps ]_vars

\* C13 witness: two token requests were sent and each had its own sleep.
C13_Witness ==
    /\ pc = "sleep"
    /\ Len(TokenCalls) = 2
    /\ Len(sleeps) = 2
    /\ Len(net) = 3

\* The phase a position belongs to: request, prompt, poll loop, verify, end.
Phase(p) ==
    CASE p = "start" -> 0
      [] p = "input" -> 1
      [] p \in {"sleep", "request"} -> 2
      [] p = "verify" -> 3
      [] p = "done" -> 4

\* C14: the phases run in the order device-code request, prompt, polling,
\* identity verification and none is entered again: the device-code request is
\* the first call and the only one of its kind, no token request is sent
\* before the input line was read, and the identity endpoint is called at most
\* once, last, and only with the token the loop returned.
C14_PhasesInOrder ==
    /\ [](\A i \in 1..Len(net) :
            /\ net[i].endpoint = "device_code" <=> i = 1
            /\ net[i].endpoint = "token" => stdin = 1
            /\ net[i].endpoint = "user"
               => /\ i = Len(net)
                  /\ i >= 3
                  /\ TokenOk(i - 1)
                  /\ net[i - 1].error = None
                  /\ token # None
                  /\ net[i].payload = token)
    /\ [][ /\ Phase(pc') >= Phase(pc)
           /\ stdin' # stdin
              => (pc = "input" /\ stdin = 0 /\ Len(net) = 1 /\ net' = net)
           /\ (Len(net') > Len(net) /\ Last(net').endpoint = "token")
              => (pc = "request" /\ stdin = 1)
           /\ (Len(net') > Len(net) /\ Last(net').endpoint = "user")
              => pc = "verify" ]_vars

\* C14 witness: a complete run through all four phases.
C14_Witness ==
    /\ pc = "done"
    /\ stdin = 1
    /\ Len(net) >= 4
    /\ net[1].endpoint = "device_code"
    /\ net[2].endpoint = "token"
    /\ Last(net).endpoint = "user"
    /\ exitCode = {0}

\* C15: the device-code endpoint is requested once per run, and every token
\* request carries the device_code of that one response, which is never
\* replaced while the loop polls.
C15_OneDeviceCode ==
    /\ [](/\ Cardinality({i \in 1..Len(net) :
                            net[i].endpoint = "device_code"})
             = (IF pc = "start" THEN 0 ELSE 1)
          /\ \A i \in 1..Len(net) :
                net[i].endpoint = "token"
                => /\ "device_code" \in DOMAIN info
                   /\ net[i].payload = info["device_code"])
    /\ [][pc # "start" => info' = info]_vars

\* C15 witness: three token requests, all with the device code the provider
\* issued for this run.
C15_Witness ==
    /\ Len(TokenCalls) = 3
    /\ info["device_code"] = "dc2"
    /\ \A i \in 1..3 : TokenCalls[i].payload = "dc2"

RECURSIVE SumTo(_, _)
\* Seconds slept in the first k sleeps.
SumTo(q, k) == IF k = 0 THEN 0 ELSE SumTo(q, k - 1) + q[k]

\* The provider has so far answered every token request with HTTP 200 and
\* authorization_pending or slow_down.
OnlyContinuing ==
    \A i \in 1..Len(net) :
        net[i].endpoint = "token"
        => (net[i].status = 200
            /\ net[i].error \in {"authorization_pending", "slow_down"})

\* The exploration bound on the number of cycles has been reached.
Capped == pc = "sleep" /\ Len(sleeps) = MaxPolls

\* C16: the loop has no deadline of its own.  A sleep is always followed by a
\* token request, however long the loop has slept; the loop is left exactly
\* when an answer is not a 200 with authorization_pending or slow_down; while
\* the provider gives only such answers the run does not end; and every run
\* either ends or is still polling, with only such answers received, when the
\* exploration bound is reached.
C16_NoLocalDeadline ==
    /\ [][ /\ pc = "sleep" => pc' = "request"
           /\ pc = "request"
              => (pc' = "sleep"
                  <=> (Last(net').status = 200
                       /\ Last(net').error
                            \in {"authorization_pending", "slow_down"})) ]_vars
    /\ []((Len(TokenCalls) >= 1 /\ OnlyContinuing)
            => (pc \in {"sleep", "request"} /\ exitCode = {}))
    /\ [](Capped => OnlyContinuing)
    /\ <>(pc = "done" \/ Capped)

\* C16 witness: the loop slept and polled again although the time already
\* slept was more than expires_in.
C16_Witness ==
    /\ Len(sleeps) >= 2
    /\ Len(TokenCalls) = Len(sleeps)
    /\ SumTo(sleeps, Len(sleeps) - 1) > info["expires_in"]

\* C17: an expired_token answer ends the run in the Expired state, signalled
\* as "the flow expired, restart", and other provider errors end it in the
\* Fatal state, in both programs.
C17_ExpiredIsDistinct ==
    \A i \in 1..Len(net) :
        /\ (TokenOk(i) /\ net[i].error = "expired_token")
           => (failure = "expired" /\ Last(stderr).error = "expired")
        /\ (TokenOk(i) /\ net[i].error
                \in {"access_denied", "unsupported_grant_type"})
           => failure = "provider"

HttpFailure == failure \in {"device_http", "poll_http"}

\* C18 as stated: at the device-code and token steps a response is a transport
\* error exactly when its status is outside 2xx.
C18_TransportErrorIffNon2xx ==
    \A i \in 1..Len(net) :
        net[i].endpoint \in {"device_code", "token"}
        => ((HttpFailure /\ i = Len(net)) <=> ~ Is2xx(net[i].status))

\* C18 as amended: at the device-code and token steps a response is a
\* transport error exactly when its status is not 200; a 200 answer of the
\* token endpoint is parsed and its error field or access token decides what
\* happens, and a 2xx status other than 200 is fatal like any other.
C18_TransportErrorIffNot200 ==
    /\ \A i \in 1..Len(net) :
          net[i].endpoint \in {"device_code", "token"}
          => ((HttpFailure /\ i = Len(net)) <=> net[i].status # 200)
    /\ (Len(net) >= 1 /\ TokenOk(Len(net)))
       => /\ Get(data, "error") = Last(net).error
          /\ failure \in {"none", "expired", "provider", "key_error"}

\* C18 witness: a token request answered 201 ended the run as a transport
\* error.
C18_Witness ==
    /\ Len(net) >= 2
    /\ Last(net).endpoint = "token"
    /\ Last(net).status = 201
    /\ failure = "poll_http"
    /\ exitCode = {1}

\* C19: the access token the loop returned is in no line the program writes to
\* stdout or stderr, and the only request that carries it is the identity
\* request.
C19_TokenNotPrinted ==
    token # None
    => /\ \A m \in Lines(stdout) \cup Lines(stderr) : token \notin m.shown
       /\ \A i \in 1..Len(net) :
             net[i].payload = token => net[i].endpoint = "user"

\* C19 witness: a token was obtained, used for the identity request, and the
\* run ended with a warning.
C19_Witness ==
    /\ pc = "done"
    /\ token # None
    /\ Last(net).payload = token
    /\ \E m \in Lines(stdout) \cup Lines(stderr) : m.kind = "warning"
    /\ \E m \in Lines(stdout) : m.kind = "obtained"

\* The device-code response had every DeviceAuthorization field.
AllFields ==
    /\ ~ (impl = "device_auth" /\ failure = "key_error" /\ Len(net) = 1)
    /\ (impl = "device_code_flow" /\ Len(net) >= 1 /\ net[1].status = 200)
       => "interval" \in DOMAIN info

Continuing(c) ==
    /\ c.endpoint = "token"
    /\ c.status = 200
    /\ c.error \in {"authorization_pending", "slow_down"}

\* The request that follows the answer c, as [endpoint, payload]; <<>> when
\* the run ends with c.  It depends on the answers only.
RequestAfter(c) ==
    IF c.endpoint = "device_code" /\ c.status = 200
    THEN <<"token", info["device_code"]>>
    ELSE IF Continuing(c)
    THEN <<"token", info["device_code"]>>
    ELSE IF c.endpoint = "token" /\ c.status = 200 /\ c.error = None
            /\ "access_token" \in DOMAIN data
    THEN <<"user", data["access_token"]>>
    ELSE <<>>

\* The exit code once the answer c is the last one of the run.
ExitAfter(c) == IF c.endpoint = "user" THEN {0} ELSE {1}

\* C20: the two programs are observationally equivalent.  Whichever program
\* runs, the requests sent and the exit code are the same function of the
\* answers received: the first request is the device-code request, each
\* further request is RequestAfter the answer before it, and the run ends,
\* with ExitAfter, exactly when RequestAfter the last answer is empty.  Two
\* runs, one of each program, against the same answers therefore send the same
\* requests and end with the same exit code.
C20_SameObservations ==
    (Len(net) >= 1 /\ AllFields)
    => /\ net[1].endpoint = "device_code" /\ net[1].payload = "-"
       /\ \A i \in 2..Len(net) :
             <<net[i].endpoint, net[i].payload>> = RequestAfter(net[i - 1])
       /\ IF RequestAfter(Last(net)) = <<>>
          THEN pc = "done" /\ exitCode = ExitAfter(Last(net))
          ELSE pc # "done" /\ exitCode = {}

\* C20 witness: device_code_flow.py ended a run of several cycles with exit
\* code 1; device_auth.py against the same answers is covered by the same
\* formula.
C20_Witness ==
    /\ impl = "device_code_flow"
    /\ "interval" \in DOMAIN info
    /\ pc = "done"
    /\ Len(net) >= 4
    /\ exitCode = {1}

====
